---- MODULE Spec2Model ----
(***************************************************************************)
(* Model of the collab administrative API (crates/collab/src/api.rs): the  *)
(* shared-secret gate, the user directory handlers, the invite code        *)
(* handlers and access token issuance with admin impersonation.            *)
(*                                                                         *)
(* Every request is served by its own task.  A task runs from one await    *)
(* to the next as one atomic step; each await is one statement against    *)
(* the store.  Option<T> is modelled as a set with at most one element:    *)
(* None is {} and Some(x) is {x}.  Strings that the code inspects by       *)
(* character (the Authorization header, invite codes) are sequences of     *)
(* one-character strings.                                                  *)
(***************************************************************************)
EXTENDS Integers, Sequences, FiniteSets, TLC

VARIABLES users, next_user_id, invite_codes, access_tokens, proc, last

vars == <<users, next_user_id, invite_codes, access_tokens, proc, last>>
store == <<users, next_user_id, invite_codes, access_tokens>>

(***************************************************************************)
(* Bounds of the model.                                                    *)
(***************************************************************************)
MaxUsers == 2
MaxCodes == 2
MaxCount == 1
MaxSecrets == 1

(***************************************************************************)
(* Program constants.                                                      *)
(***************************************************************************)
CodeLen == 16
TokenPrefix == <<"t", "o", "k", "e", "n", " ">>

OK == "OK"
BAD_REQUEST == "BAD_REQUEST"
UNAUTHORIZED == "UNAUTHORIZED"
UNPROCESSABLE_ENTITY == "UNPROCESSABLE_ENTITY"
NOT_FOUND == "NOT_FOUND"
CONFLICT == "CONFLICT"
INTERNAL_SERVER_ERROR == "INTERNAL_SERVER_ERROR"

(***************************************************************************)
(* Inputs the environment draws from.                                      *)
(***************************************************************************)
\* Two request slots: requests are served concurrently, two at a time.
Procs == {1, 2}
Logins == {"alice", "bob"}
UserIds == 1..MaxUsers
Counts == 0..MaxCount
Secrets == 1..MaxSecrets
UrlSafe == <<"A", "b", "0", "_", "-">>
PublicKeys == {"valid", "malformed"}

\* The process-wide configured secret (AppState::api_token).
api_token == <<"s", "k">>

\* Authorization header values: absent, not visible ASCII, malformed, wrong
\* secret (shorter, longer, shifted by a space), right secret.
Tok(v) == TokenPrefix \o v
AllHeaders ==
    { {},
      {<<"<ff>">>},
      {Tok(<<"s", "<ff>">>)},
      {api_token},
      {<<"t", "o", "k", "e", "n">> \o api_token},
      {<<"T">> \o Tail(Tok(api_token))},
      {TokenPrefix},
      {Tok(<<"s">>)},
      {Tok(api_token \o <<"x">>)},
      {Tok(<<" ">> \o api_token)},
      {Tok(api_token)} }
GoodHeader == {Tok(api_token)}
Good == {GoodHeader}

TheOne(S) == CHOOSE x \in S : TRUE

(***************************************************************************)
(* Errors and responses.                                                   *)
(***************************************************************************)
NoError == [variant |-> "", status |-> "", message |-> <<>>]
Http(status, message) == [variant |-> "Http", status |-> status, message |-> message]
anyhow(message) == [variant |-> "Internal", status |-> "", message |-> message]

into_response(err) ==
    [status |-> IF err.variant = "Http" THEN err.status ELSE INTERNAL_SERVER_ERROR,
     message |-> err.message,
     body |-> {}]

Json(body) == [status |-> OK, message |-> <<>>, body |-> body]


(***************************************************************************)
(* Requests.  One record shape for every route; a route reads only its own *)
(* parameters and the others keep their defaults.                          *)
(***************************************************************************)
Req(route, header) ==
    [route |-> route, header |-> header, login |-> "", admin |-> FALSE, id |-> 0,
     count |-> 0, code |-> <<>>, public_key |-> "", impersonate |-> {}]

\* nanoid!(n): n characters of the URL-safe alphabet.  The generator's
\* outputs are sampled by the codes made of one repeated character.
nanoid(n) == { [i \in 1..n |-> UrlSafe[k]] : k \in 1..MaxCodes }

GetUsersReqs(H) == { Req("get_users", h) : h \in H }
CreateUserReqs(H) ==
    { [Req("create_user", h) EXCEPT !.login = l, !.admin = a] :
        h \in H, l \in Logins, a \in BOOLEAN }
GetUserReqs(H) ==
    { [Req("get_user", h) EXCEPT !.login = l] : h \in H, l \in Logins }
UpdateUserReqs(H) ==
    { [Req("update_user", h) EXCEPT !.id = i, !.admin = a] :
        h \in H, i \in UserIds, a \in BOOLEAN }
DestroyUserReqs(H) ==
    { [Req("destroy_user", h) EXCEPT !.id = i] : h \in H, i \in UserIds }
GetInviteCodesReqs(H) ==
    { [Req("get_invite_codes", h) EXCEPT !.id = i] : h \in H, i \in UserIds }
CreateInviteCodeReqs(H) ==
    { [Req("create_invite_code", h) EXCEPT !.id = i, !.count = n] :
        h \in H, i \in UserIds, n \in Counts }
UpdateInviteCodeReqs(H) ==
    { [Req("update_invite_code", h) EXCEPT !.code = c, !.count = n] :
        h \in H, c \in nanoid(CodeLen), n \in 0..MaxCount + 1 }
TracePanicReqs(H) == { Req("trace_panic", h) : h \in H }
CreateAccessTokenReqs(H) ==
    { [Req("create_access_token", h) EXCEPT
          !.login = l, !.public_key = k, !.impersonate = i] :
        h \in H, l \in Logins, k \in PublicKeys, i \in {{}} \cup {{x} : x \in Logins} }

(***************************************************************************)
(* Shared-secret gate.                                                     *)
(***************************************************************************)
\* HeaderValue::to_str: Some only when every byte is visible ASCII.
to_str(h) == IF \E i \in 1..Len(h) : h[i] = "<ff>" THEN {} ELSE {h}

\* str::strip_prefix
strip_prefix(s, prefix) ==
    IF Len(s) >= Len(prefix) /\ SubSeq(s, 1, Len(prefix)) = prefix
    THEN {SubSeq(s, Len(prefix) + 1, Len(s))}
    ELSE {}

\* A gate that only checks that the presented value starts like the secret.
validate_api_token_prefix(header) ==
    LET s == IF header = {} THEN {} ELSE to_str(TheOne(header))
    IN  IF s = {} THEN Http(BAD_REQUEST, <<"missing authorization header">>)
        ELSE LET token == strip_prefix(TheOne(s), TokenPrefix)
             IN  IF token = {}
                 THEN Http(BAD_REQUEST, <<"invalid authorization header">>)
                 ELSE IF strip_prefix(TheOne(token), api_token) = {}
                      THEN Http(UNAUTHORIZED, <<"invalid authorization token">>)
                      ELSE NoError

\* The error the gate answers with, or NoError when the request goes on.
validate_api_token(header) ==
    LET s == IF header = {} THEN {} ELSE to_str(TheOne(header))
    IN  IF s = {} THEN Http(BAD_REQUEST, <<"missing authorization header">>)
        ELSE LET token == strip_prefix(TheOne(s), TokenPrefix)
             IN  IF token = {}
                 THEN Http(BAD_REQUEST, <<"invalid authorization header">>)
                 ELSE IF TheOne(token) # api_token
                      THEN Http(UNAUTHORIZED, <<"invalid authorization token">>)
                      ELSE NoError

(***************************************************************************)
(* The store (app.db) and the auth module, as the handlers use them.       *)
(***************************************************************************)
get_all_users == users
get_user_by_id(id) == { u \in users : u.id = id }
get_user_by_github_login(login) == { u \in users : u.login = login }

db_create_user(login, admin) ==
    IF get_user_by_github_login(login) # {}
    THEN [err |-> Http(CONFLICT, <<"login already exists">>), users |-> users, id |-> 0]
    ELSE [err |-> NoError,
          users |-> users \cup {[id |-> next_user_id, login |-> login, admin |-> admin]},
          id |-> next_user_id]

set_user_is_admin(id, admin) ==
    IF get_user_by_id(id) = {}
    THEN [err |-> Http(NOT_FOUND, <<"user not found">>), users |-> users]
    ELSE [err |-> NoError,
          users |-> { IF u.id = id THEN [u EXCEPT !.admin = admin] ELSE u : u \in users }]

db_destroy_user(id) ==
    IF get_user_by_id(id) = {}
    THEN [err |-> Http(NOT_FOUND, <<"user not found">>), users |-> users]
    ELSE [err |-> NoError, users |-> { u \in users : u.id # id }]

db_get_invite_codes(owner) == { c \in invite_codes : c.owner_user_id = owner }

\* A store without the uniqueness constraint on code.
db_create_invite_code_no_constraint(owner, code, allowed_usage_count) ==
    IF get_user_by_id(owner) = {}
    THEN [err |-> Http(NOT_FOUND, <<"user not found">>), codes |-> invite_codes]
    ELSE [err |-> NoError,
          codes |-> invite_codes \cup
              {[code |-> code, owner_user_id |-> owner,
                allowed_usage_count |-> allowed_usage_count,
                remaining_count |-> allowed_usage_count]}]

db_create_invite_code(owner, code, allowed_usage_count) ==
    IF \E c \in invite_codes : c.code = code
    THEN [err |-> Http(CONFLICT, <<"invite code already exists">>), codes |-> invite_codes]
    ELSE IF get_user_by_id(owner) = {}
    THEN [err |-> Http(NOT_FOUND, <<"user not found">>), codes |-> invite_codes]
    ELSE [err |-> NoError,
          codes |-> invite_codes \cup
              {[code |-> code, owner_user_id |-> owner,
                allowed_usage_count |-> allowed_usage_count,
                remaining_count |-> allowed_usage_count]}]

db_update_invite_code(code, remaining_count) ==
    IF ~ \E c \in invite_codes : c.code = code
    THEN [err |-> Http(NOT_FOUND, <<"invite code not found">>), codes |-> invite_codes]
    ELSE [err |-> NoError,
          codes |-> { IF c.code = code
                      THEN [c EXCEPT !.remaining_count = remaining_count]
                      ELSE c : c \in invite_codes }]

\* auth::create_access_token: a fresh secret, recorded for user_id.
auth_create_access_token(user_id, secret) ==
    [tokens |-> access_tokens \cup {[user_id |-> user_id, secret |-> secret]},
     access_token |-> secret]

\* auth::encrypt_access_token: seals the secret for the holder of public_key.
\* A key that does not parse is an encryption failure, a generic error like
\* the ones the handlers build with anyhow!; no status is attached to it.
encrypt_access_token(access_token, public_key) ==
    IF public_key = "malformed"
    THEN [err |-> anyhow(<<"failed to parse app public key">>), value |-> {}]
    ELSE [err |-> NoError,
          value |-> {[sealed_for |-> public_key, plaintext |-> access_token]}]

(***************************************************************************)
(* Tasks.  proc[p] is the task of request slot p: the handler step it is   *)
(* suspended before, its request and its locals.  last is the most recent  *)
(* response sent, with its request and the function that produced it.      *)
(***************************************************************************)
Idle == [pc |-> "idle", req |-> Req("", {}), user |-> {}, user_id |-> 0, code |-> <<>>]

Init ==
    /\ users = {}
    /\ next_user_id = 1
    /\ invite_codes = {}
    /\ access_tokens = {}
    /\ proc = [p \in Procs |-> Idle]
    /\ last = [req |-> Req("", {}), resp |-> Json({}), by |-> ""]

Respond(p, resp) ==
    /\ proc' = [proc EXCEPT ![p] = Idle]
    /\ last' = [req |-> proc[p].req, resp |-> resp, by |-> proc[p].req.route]

Result(err, body) == IF err = NoError THEN Json(body) ELSE into_response(err)

InFlight(route) == Cardinality({ q \in Procs : proc[q].pc = route })

\* A request arrives at slot p and the gate turns it away.
Denied(p, req) ==
    /\ proc[p].pc = "idle"
    /\ validate_api_token(req.header) # NoError
    /\ last' = [req |-> req, resp |-> into_response(validate_api_token(req.header)),
                by |-> "validate_api_token"]
    /\ UNCHANGED <<store, proc>>

\* A request arrives at slot p and passes the gate: its handler starts and
\* runs up to its first await.  create_invite_code has generated its code by
\* then.
Accepted(p, req) ==
    /\ proc[p].pc = "idle"
    /\ validate_api_token(req.header) = NoError
    /\ req.route # "trace_panic"
    /\ req.route = "create_user" => next_user_id + InFlight("create_user") <= MaxUsers
    /\ \E code \in IF req.route = "create_invite_code" THEN nanoid(CodeLen) ELSE {<<>>} :
          proc' = [proc EXCEPT ![p] =
                      [Idle EXCEPT !.pc = req.route, !.req = req, !.code = code]]
    /\ UNCHANGED <<store, last>>

\* trace_panic never awaits: it logs and answers.
trace_panic(p, req) ==
    /\ proc[p].pc = "idle"
    /\ validate_api_token(req.header) = NoError
    /\ req.route = "trace_panic"
    /\ last' = [req |-> req, resp |-> Json({}), by |-> "trace_panic"]
    /\ UNCHANGED <<store, proc>>

get_users(p) ==
    /\ proc[p].pc = "get_users"
    /\ Respond(p, Json(get_all_users))
    /\ UNCHANGED store

\* create_user, first await: the insert.
create_user(p) ==
    /\ proc[p].pc = "create_user"
    /\ LET r == db_create_user(proc[p].req.login, proc[p].req.admin)
       IN  \/ /\ r.err # NoError
              /\ Respond(p, into_response(r.err))
              /\ UNCHANGED store
           \/ /\ r.err = NoError
              /\ users' = r.users
              /\ next_user_id' = next_user_id + 1
              /\ proc' = [proc EXCEPT ![p].pc = "create_user_reread", ![p].user_id = r.id]
              /\ UNCHANGED <<invite_codes, access_tokens, last>>

\* A create_user that answers from its parameters when the re-read misses.
create_user_found_params(req, user_id, found) ==
    Json({[id |-> user_id, login |-> req.login, admin |-> req.admin]})

\* create_user after the re-read: the response for what the re-read found.
create_user_found(req, user_id, found) ==
    IF found = {}
    THEN into_response(anyhow(<<"couldn't find the user we just created">>))
    ELSE Json(found)

\* create_user, second await: the re-read by id.
create_user_reread(p) ==
    /\ proc[p].pc = "create_user_reread"
    /\ Respond(p, create_user_found(proc[p].req, proc[p].user_id,
                                    get_user_by_id(proc[p].user_id)))
    /\ UNCHANGED store

update_user(p) ==
    /\ proc[p].pc = "update_user"
    /\ LET r == set_user_is_admin(proc[p].req.id, proc[p].req.admin)
       IN  /\ users' = r.users
           /\ Respond(p, Result(r.err, {}))
    /\ UNCHANGED <<next_user_id, invite_codes, access_tokens>>

destroy_user(p) ==
    /\ proc[p].pc = "destroy_user"
    /\ LET r == db_destroy_user(proc[p].req.id)
       IN  /\ users' = r.users
           /\ Respond(p, Result(r.err, {}))
    /\ UNCHANGED <<next_user_id, invite_codes, access_tokens>>

\* get_user after the lookup: the response for what the lookup found.
get_user_found(found) ==
    IF found = {} THEN into_response(anyhow(<<"user not found">>)) ELSE Json(found)

get_user(p) ==
    /\ proc[p].pc = "get_user"
    /\ Respond(p, get_user_found(get_user_by_github_login(proc[p].req.login)))
    /\ UNCHANGED store

get_invite_codes(p) ==
    /\ proc[p].pc = "get_invite_codes"
    /\ Respond(p, Json(db_get_invite_codes(proc[p].req.id)))
    /\ UNCHANGED store

\* create_invite_code: the code was generated when the call was built
\* (proc[p].code); the await is the insert.
create_invite_code(p) ==
    /\ proc[p].pc = "create_invite_code"
    /\ LET r == db_create_invite_code(proc[p].req.id, proc[p].code, proc[p].req.count)
       IN  /\ invite_codes' = r.codes
           /\ Respond(p, Result(r.err, {}))
    /\ UNCHANGED <<users, next_user_id, access_tokens>>

update_invite_code(p) ==
    /\ proc[p].pc = "update_invite_code"
    /\ LET r == db_update_invite_code(proc[p].req.code, proc[p].req.count)
       IN  /\ invite_codes' = r.codes
           /\ Respond(p, Result(r.err, {}))
    /\ UNCHANGED <<users, next_user_id, access_tokens>>

(***************************************************************************)
(* create_access_token.  Each decision operator gives the step the task    *)
(* goes to ("idle" when it answers), its user_id and the error it answers  *)
(* with.                                                                   *)
(***************************************************************************)
does_not_exist(impersonate) == <<"user ", TheOne(impersonate), " does not exist">>
no_permission == <<"you do not have permission to impersonate other users">>

\* A decision that looks the target up before it looks at the admin flag.
subject_found_target_first(found, impersonate) ==
    IF found = {}
    THEN [pc |-> "idle", user_id |-> 0, err |-> anyhow(<<"user not found">>)]
    ELSE LET user == TheOne(found)
         IN  IF impersonate # {}
             THEN IF get_user_by_github_login(TheOne(impersonate)) = {}
                  THEN [pc |-> "idle", user_id |-> user.id,
                        err |-> Http(UNPROCESSABLE_ENTITY, does_not_exist(impersonate))]
                  ELSE IF user.admin
                  THEN [pc |-> "impersonate", user_id |-> user.id, err |-> NoError]
                  ELSE [pc |-> "idle", user_id |-> user.id,
                        err |-> Http(UNAUTHORIZED, no_permission)]
             ELSE [pc |-> "issue", user_id |-> user.id, err |-> NoError]

\* After the subject lookup.
subject_found(found, impersonate) ==
    IF found = {}
    THEN [pc |-> "idle", user_id |-> 0, err |-> anyhow(<<"user not found">>)]
    ELSE LET user == TheOne(found)
         IN  IF impersonate # {}
             THEN IF user.admin
                  THEN [pc |-> "impersonate", user_id |-> user.id, err |-> NoError]
                  ELSE [pc |-> "idle", user_id |-> user.id,
                        err |-> Http(UNAUTHORIZED, no_permission)]
             ELSE [pc |-> "issue", user_id |-> user.id, err |-> NoError]

\* A decision that issues the subject's own token when the target is missing.
impersonated_found_fallback(user_id, found, impersonate) ==
    IF found # {}
    THEN [pc |-> "issue", user_id |-> TheOne(found).id, err |-> NoError]
    ELSE [pc |-> "issue", user_id |-> user_id, err |-> NoError]

\* After the lookup of the impersonation target (the subject is an admin).
impersonated_found(user_id, found, impersonate) ==
    IF found # {}
    THEN [pc |-> "issue", user_id |-> TheOne(found).id, err |-> NoError]
    ELSE [pc |-> "idle", user_id |-> user_id,
          err |-> Http(UNPROCESSABLE_ENTITY, does_not_exist(impersonate))]

\* A response that names the subject instead of the token's user.
token_response_subject(user, user_id, sealed) ==
    IF sealed.err # NoError
    THEN into_response(sealed.err)
    ELSE Json({[user_id |-> TheOne(user).id,
                encrypted_access_token |-> TheOne(sealed.value)]})

\* The response once the secret is generated and sealed.
token_response(user, user_id, sealed) ==
    IF sealed.err # NoError
    THEN into_response(sealed.err)
    ELSE Json({[user_id |-> user_id, encrypted_access_token |-> TheOne(sealed.value)]})

Proceed(p, d, user) ==
    IF d.pc = "idle"
    THEN Respond(p, into_response(d.err))
    ELSE /\ proc' = [proc EXCEPT ![p].pc = "create_access_token_" \o d.pc,
                                 ![p].user = user, ![p].user_id = d.user_id]
         /\ UNCHANGED last

\* A create_access_token that generates the secret before it authorizes.
create_access_token_eager(p) ==
    /\ proc[p].pc = "create_access_token"
    /\ LET found == get_user_by_github_login(proc[p].req.login)
       IN  /\ Proceed(p, subject_found(found, proc[p].req.impersonate), found)
           /\ \E secret \in Secrets :
                access_tokens' =
                    IF found = {} THEN access_tokens
                    ELSE auth_create_access_token(TheOne(found).id, secret).tokens
    /\ UNCHANGED <<users, next_user_id, invite_codes>>

\* create_access_token, first await: the subject lookup.
create_access_token(p) ==
    /\ proc[p].pc = "create_access_token"
    /\ LET found == get_user_by_github_login(proc[p].req.login)
       IN  Proceed(p, subject_found(found, proc[p].req.impersonate), found)
    /\ UNCHANGED store

\* create_access_token, second await: the lookup of the impersonated user.
create_access_token_impersonate(p) ==
    /\ proc[p].pc = "create_access_token_impersonate"
    /\ LET found == get_user_by_github_login(TheOne(proc[p].req.impersonate))
       IN  Proceed(p, impersonated_found(proc[p].user_id, found, proc[p].req.impersonate),
                   proc[p].user)
    /\ UNCHANGED store

\* create_access_token, third await: the secret is generated and recorded,
\* then sealed under the caller's public key.
create_access_token_issue(p) ==
    /\ proc[p].pc = "create_access_token_issue"
    /\ \E secret \in Secrets :
          LET t == auth_create_access_token(proc[p].user_id, secret)
              sealed == encrypt_access_token(t.access_token, proc[p].req.public_key)
          IN  /\ access_tokens' = t.tokens
              /\ Respond(p, token_response(proc[p].user, proc[p].user_id, sealed))
    /\ UNCHANGED <<users, next_user_id, invite_codes>>

(***************************************************************************)
(* Specifications.  Each one is the API under one population of clients:   *)
(* the requests they send and the number of request slots.                 *)
(***************************************************************************)
AllReqs(H) ==
    GetUsersReqs(H) \cup CreateUserReqs(H) \cup GetUserReqs(H) \cup UpdateUserReqs(H)
    \cup DestroyUserReqs(H) \cup GetInviteCodesReqs(H) \cup CreateInviteCodeReqs(H)
    \cup UpdateInviteCodeReqs(H) \cup TracePanicReqs(H) \cup CreateAccessTokenReqs(H)

NoHeader == { {} }

\* Every route under every header, one client on one slot, one choice of
\* parameters per route.
GateProcs == {1}
GateReqs ==
    { r \in AllReqs(AllHeaders) :
        /\ r.login \in {"", "alice"}
        /\ r.id \in {0, 1}
        /\ r.admin = (r.route = "update_user")
        /\ r.count = IF r.route = "update_invite_code" THEN 1 ELSE 0
        /\ r.code \in {<<>>, [i \in 1..CodeLen |-> UrlSafe[1]]}
        /\ r.public_key \in {"", "valid"}
        /\ r.impersonate \in {{}, {"alice"}} }

Next ==
    \E p \in GateProcs :
        \/ \E req \in GateReqs : Denied(p, req)
        \/ \E req \in GateReqs : Accepted(p, req)
        \/ \E req \in GateReqs : trace_panic(p, req)
        \/ get_users(p)
        \/ create_user(p)
        \/ create_user_reread(p)
        \/ update_user(p)
        \/ destroy_user(p)
        \/ get_user(p)
        \/ get_invite_codes(p)
        \/ create_invite_code(p)
        \/ update_invite_code(p)
        \/ create_access_token(p)
        \/ create_access_token_impersonate(p)
        \/ create_access_token_issue(p)

Spec == Init /\ [][Next]_vars

\* The user directory under concurrent clients.
UsersReqs ==
    CreateUserReqs(Good) \cup UpdateUserReqs(Good) \cup DestroyUserReqs(Good)

NextUsers ==
    \E p \in Procs :
        \/ \E req \in DestroyUserReqs(NoHeader) : Denied(p, req)
        \/ \E req \in UsersReqs : Accepted(p, req)
        \/ create_user(p)
        \/ create_user_reread(p)
        \/ update_user(p)
        \/ destroy_user(p)

SpecUsers == Init /\ [][NextUsers]_vars

\* Invite codes under concurrent clients: alice is the only user created,
\* codes are requested for her id, before and after she exists, and the
\* clients use codes up (remaining_count 0).
InvitesReqs ==
    { r \in CreateUserReqs(Good) : r.login = "alice" /\ ~ r.admin }
    \cup { r \in CreateInviteCodeReqs(Good) : r.id = 1 }
    \cup { r \in UpdateInviteCodeReqs(Good) : r.count = 0 }

NextInvites ==
    \E p \in Procs :
        \/ \E req \in CreateInviteCodeReqs(NoHeader) : Denied(p, req)
        \/ \E req \in InvitesReqs : Accepted(p, req)
        \/ create_user(p)
        \/ create_user_reread(p)
        \/ create_invite_code(p)
        \/ update_invite_code(p)

SpecInvites == Init /\ [][NextInvites]_vars

\* Access token issuance under concurrent clients.
TokensReqs == CreateUserReqs(Good) \cup CreateAccessTokenReqs(Good)

NextTokens ==
    \E p \in Procs :
        \/ \E req \in TracePanicReqs(NoHeader) : Denied(p, req)
        \/ \E req \in TokensReqs : Accepted(p, req)
        \/ create_user(p)
        \/ create_user_reread(p)
        \/ create_access_token(p)
        \/ create_access_token_impersonate(p)
        \/ create_access_token_issue(p)

SpecTokens == Init /\ [][NextTokens]_vars

(***************************************************************************)
(* Properties.                                                             *)
(***************************************************************************)
\* Task p takes the step it is suspended before at pc.
Stepped(p, pc) == proc[p].pc = pc /\ proc'[p] # proc[p]
Answered(p) == proc'[p].pc = "idle"

IsText(h) == \A i \in 1..Len(h) : h[i] # "<ff>"
HasTokenForm(header) ==
    /\ header # {}
    /\ IsText(TheOne(header))
    /\ \E n \in 0..Len(TheOne(header)) :
          TheOne(header) = TokenPrefix \o SubSeq(TheOne(header), n + 1, Len(TheOne(header)))
RightSecret(header) == header = {TokenPrefix \o api_token}

\* C1: on every route the gate decides first.  A request whose Authorization
\* header is absent, is not text, or does not read "token <value>" is answered
\* 400; one whose <value> is not the configured api_token is answered 401;
\* neither reaches a handler nor touches the store.  A handler runs, and
\* answers, only for a request that presents exactly the configured secret,
\* and such a request is never answered by the gate.
C1_GateDecidesFirst ==
    /\ [](/\ \A p \in Procs : proc[p].pc # "idle" => RightSecret(proc[p].req.header)
          /\ last.by = "validate_api_token" =>
                /\ ~ RightSecret(last.req.header)
                /\ last.resp.body = {}
                /\ last.resp.status =
                      IF HasTokenForm(last.req.header) THEN UNAUTHORIZED ELSE BAD_REQUEST
          /\ last.by \notin {"", "validate_api_token"} => RightSecret(last.req.header))
    /\ [][(last'.by = "validate_api_token" /\ \A p \in Procs : Answered(p) /\ proc[p].pc = "idle")
            => store' = store]_vars

\* C1 witness: a panic report with a wrong secret was answered 401 by the gate.
C1_Witness ==
    /\ last.by = "validate_api_token"
    /\ last.req.route = "trace_panic"
    /\ HasTokenForm(last.req.header)
    /\ last.resp.status = UNAUTHORIZED

\* C2: when the subject exists and is not an admin, a create_access_token
\* with impersonate set is answered at once with the one fixed 401 response,
\* whatever login impersonate names and whether or not that login exists.
C2_NonAdminImpersonationIs401 ==
    [][\A p \in Procs :
          Stepped(p, "create_access_token") =>
            LET found == get_user_by_github_login(proc[p].req.login)
            IN  (found # {} /\ ~ TheOne(found).admin /\ proc[p].req.impersonate # {}) =>
                  /\ Answered(p)
                  /\ last'.resp = [status |-> UNAUTHORIZED, message |-> no_permission,
                                   body |-> {}]]_vars

\* C2 witness: a non-admin was refused a token for a login that does exist.
C2_Witness ==
    /\ last.by = "create_access_token"
    /\ last.resp.status = UNAUTHORIZED
    /\ last.req.impersonate # {}
    /\ get_user_by_github_login(TheOne(last.req.impersonate)) # {}
    /\ \E u \in get_user_by_github_login(last.req.login) : ~ u.admin

\* C3: when the subject exists and is an admin, a create_access_token with
\* impersonate set is not answered before the target is looked up, and when
\* no user has that login it is answered 422, a response that differs from
\* the 401 a non-admin gets.
C3_MissingTargetIs422 ==
    [][\A p \in Procs :
          /\ Stepped(p, "create_access_token") =>
                LET found == get_user_by_github_login(proc[p].req.login)
                IN  (found # {} /\ TheOne(found).admin /\ proc[p].req.impersonate # {}) =>
                      /\ ~ Answered(p)
                      /\ proc'[p].pc = "create_access_token_impersonate"
          /\ (/\ Stepped(p, "create_access_token_impersonate")
              /\ get_user_by_github_login(TheOne(proc[p].req.impersonate)) = {}) =>
                /\ Answered(p)
                /\ last'.resp.status = UNPROCESSABLE_ENTITY
                /\ last'.resp.body = {}
                /\ last'.resp # [status |-> UNAUTHORIZED, message |-> no_permission,
                                 body |-> {}]]_vars

\* C3 witness: an admin asked for a token for a login nobody has.
C3_Witness ==
    /\ last.by = "create_access_token"
    /\ last.resp.status = UNPROCESSABLE_ENTITY
    /\ last.req.impersonate # {}
    /\ get_user_by_github_login(TheOne(last.req.impersonate)) = {}
    /\ \E u \in get_user_by_github_login(last.req.login) : u.admin

\* C4: a create_access_token succeeds only in its issuing step; the user_id
\* it returns is the one the secret it returns was recorded for, and that id
\* is the subject's own when impersonate is omitted and the id of the user
\* whose login is impersonate when the (admin) subject impersonates.
C4_ReturnedUserId ==
    [][\A p \in Procs :
          /\ Stepped(p, "create_access_token") =>
                LET found == get_user_by_github_login(proc[p].req.login)
                IN  /\ Answered(p) => last'.resp.status # OK
                    /\ (found # {} /\ proc[p].req.impersonate = {}) =>
                          /\ proc'[p].pc = "create_access_token_issue"
                          /\ proc'[p].user_id = TheOne(found).id
          /\ Stepped(p, "create_access_token_impersonate") =>
                LET found == get_user_by_github_login(TheOne(proc[p].req.impersonate))
                IN  /\ Answered(p) => last'.resp.status # OK
                    /\ found # {} =>
                          /\ proc'[p].pc = "create_access_token_issue"
                          /\ proc'[p].user_id = TheOne(found).id
          /\ (Stepped(p, "create_access_token_issue") /\ last'.resp.status = OK) =>
                \E t \in last'.resp.body :
                    /\ last'.resp.body = {t}
                    /\ t.user_id = proc[p].user_id
                    /\ t.encrypted_access_token.sealed_for = proc[p].req.public_key
                    /\ access_tokens' = access_tokens \cup
                          {[user_id |-> t.user_id,
                            secret |-> t.encrypted_access_token.plaintext]}]_vars

\* C4 witness: an admin got a token for another user, with that user's id.
C4_Witness ==
    /\ last.by = "create_access_token"
    /\ last.resp.status = OK
    /\ last.req.impersonate # {}
    /\ TheOne(last.req.impersonate) # last.req.login
    /\ \E t \in last.resp.body : \E u \in users :
          /\ u.login = TheOne(last.req.impersonate)
          /\ t.user_id = u.id
          /\ [user_id |-> u.id, secret |-> t.encrypted_access_token.plaintext]
                \in access_tokens

\* C5 (as claimed): a get_user or a create_access_token whose path login
\* matches no user is answered with the NotFound kind (404).
C5_UnknownLoginIs404 ==
    [][\A p \in Procs :
          ((Stepped(p, "get_user") \/ Stepped(p, "create_access_token"))
           /\ get_user_by_github_login(proc[p].req.login) = {}) =>
             (Answered(p) /\ last'.resp.status = NOT_FOUND)]_vars

\* C6 (as claimed): every stored invite code has
\* 0 <= remaining_count <= allowed_usage_count.
C6_RemainingWithinAllowed ==
    \A c \in invite_codes :
        0 <= c.remaining_count /\ c.remaining_count <= c.allowed_usage_count

C8_InviteCodesUnique ==
    /\ [](\A a \in invite_codes : \A b \in invite_codes : a.code = b.code => a = b)
    /\ [][\A p \in Procs :
            Stepped(p, "create_invite_code") =>
              /\ Answered(p)
              /\ (\E c \in invite_codes : c.code = proc[p].code) =>
                    (last'.resp.status = CONFLICT /\ invite_codes' = invite_codes)
              /\ last'.resp.status # OK => invite_codes' = invite_codes
              /\ last'.resp.status = OK =>
                    /\ Len(proc[p].code) = CodeLen
                    /\ \A i \in 1..CodeLen :
                          \E k \in 1..Len(UrlSafe) : proc[p].code[i] = UrlSafe[k]
                    /\ invite_codes' = invite_codes \cup
                          {[code |-> proc[p].code,
                            owner_user_id |-> proc[p].req.id,
                            allowed_usage_count |-> proc[p].req.count,
                            remaining_count |-> proc[p].req.count]}
                    /\ invite_codes' # invite_codes]_vars

\* C8 witness: two different codes are stored, and a call whose generated
\* code was one of them was answered Conflict.
C8_Witness ==
    /\ last.by = "create_invite_code"
    /\ last.resp.status = CONFLICT
    /\ \E a \in invite_codes : \E b \in invite_codes : a.code # b.code

\* C9 (as claimed): after the insert, create_user's re-read answers Internal
\* with no body when the new id is gone, and otherwise answers with the
\* record of the new id carrying the requested login and admin flag.
C9_RereadReturnsRequested ==
    [][\A p \in Procs :
          Stepped(p, "create_user_reread") =>
            /\ Answered(p)
            /\ IF get_user_by_id(proc[p].user_id) = {}
               THEN last'.resp.status = INTERNAL_SERVER_ERROR /\ last'.resp.body = {}
               ELSE /\ last'.resp.status = OK
                    /\ last'.resp.body =
                          {[id |-> proc[p].user_id, login |-> proc[p].req.login,
                            admin |-> proc[p].req.admin]}]_vars

\* C9 (amended): after the insert, create_user's re-read answers Internal
\* with no body when the new id is gone, and otherwise answers with the
\* record now stored under the new id, which carries that id and the
\* requested login; its admin flag is the stored one.
C9_RereadReturnsStored ==
    [][\A p \in Procs :
          Stepped(p, "create_user_reread") =>
            /\ Answered(p)
            /\ IF get_user_by_id(proc[p].user_id) = {}
               THEN last'.resp.status = INTERNAL_SERVER_ERROR /\ last'.resp.body = {}
               ELSE /\ last'.resp.status = OK
                    /\ last'.resp.body = get_user_by_id(proc[p].user_id)
                    /\ \A u \in last'.resp.body :
                          u.id = proc[p].user_id /\ u.login = proc[p].req.login]_vars

\* C9 witness: a create_user was answered Internal because its user was
\* deleted between the insert and the re-read.
C9_Witness ==
    /\ last.by = "create_user"
    /\ last.resp.status = INTERNAL_SERVER_ERROR
    /\ last.resp.body = {}
    /\ next_user_id > 1

\* C10: the two lookup steps of create_access_token, where every rejection
\* for an unknown subject, a non-admin impersonation or a missing target is
\* decided, leave the store as it was; the issuing step, the only one that
\* generates a secret, never answers with one of those rejections.
C10_RejectedLeavesStore ==
    [][\A p \in Procs :
          /\ (Stepped(p, "create_access_token")
              \/ Stepped(p, "create_access_token_impersonate")) => store' = store
          /\ (Stepped(p, "create_access_token") /\ ~ Answered(p)) =>
                /\ get_user_by_github_login(proc[p].req.login) # {}
                /\ proc[p].req.impersonate # {} =>
                      \E u \in get_user_by_github_login(proc[p].req.login) : u.admin
          /\ (Stepped(p, "create_access_token_impersonate") /\ ~ Answered(p)) =>
                get_user_by_github_login(TheOne(proc[p].req.impersonate)) # {}
          /\ Stepped(p, "create_access_token_issue") =>
                /\ last'.resp.status \notin {UNAUTHORIZED, UNPROCESSABLE_ENTITY}
                /\ last'.resp.message # <<"user not found">>]_vars

\* C10 witness: a request for an unknown subject was rejected and no secret
\* has been recorded.
C10_Witness ==
    /\ last.by = "create_access_token"
    /\ last.resp.message = <<"user not found">>
    /\ get_user_by_github_login(last.req.login) = {}
    /\ access_tokens = {}

====
